---- MODULE Spec2Model ----
(***************************************************************************)
(* The tax-optimization capability of the finance backend                  *)
(* (backend/api/tax_optimizer.py): the slab walk of calculate_indian_tax,  *)
(* the strategy generator get_standard_tax_strategies and the              *)
(* /tax-optimization handler that composes them.                           *)
(*                                                                         *)
(* Numbers.  The code computes in Python floats; the model computes the    *)
(* same expressions exactly, in integers:                                  *)
(*   - incomes and deduction amounts are whole rupees;                     *)
(*   - a slab rate or tax bracket is held in percent (0.05 is 5);          *)
(*   - base_tax, cess and total_tax are held in units of 1/Scale rupee,    *)
(*     fine enough that rate * amount and 4 % of it are whole numbers;     *)
(*   - effective_rate is the fraction [num, den] (in percent);             *)
(*   - the ELSS amounts (income * 0.1) are held in tenths of a rupee;      *)
(*   - round() is Python's round-half-to-even.                             *)
(* The text-only fields of the result (implementation steps, deadlines,    *)
(* the tax_analysis prose) carry no computation and are left out.          *)
(*                                                                         *)
(* Two further components are modelled, each under its own specification:  *)
(*   - GuidanceSpec: FinancialGuidanceEngine._calculate_federal_tax        *)
(*     (backend/services/financial_guidance.py);                           *)
(*   - WatsonxSpec: WatsonxService, its cached IAM token and               *)
(*     generate_financial_advice (backend/services/watsonx_service.py).    *)
(***************************************************************************)
EXTENDS Integers, Sequences, FiniteSets, TLC

VARIABLES
    request,                \* the TaxOptimizationRequest being served
    pc,                     \* position of the handler in its body
    total_deductions,       \* handler local, line 215
    current_tax,            \* handler local, line 219
    tax_after_deductions,   \* handler local, line 220
    tax_bracket,            \* local of get_standard_tax_strategies, lines 65-78
    frame,                  \* the other locals of get_standard_tax_strategies
    strategies,             \* the list get_standard_tax_strategies builds
    response,               \* what the caller receives
    parked,                 \* the other invocations in flight, each with its
                            \* own request, position, locals and response
    federal,                \* the call of _calculate_federal_tax: its argument,
                            \* its locals and its position
    api_key,                \* WatsonxService.api_key
    access_token,           \* WatsonxService.access_token
    token_expires_at,       \* WatsonxService.token_expires_at
    now,                    \* datetime.now()
    advice,                 \* the call of generate_financial_advice: its
                            \* arguments, its locals and its position
    calls                   \* calls of generate_financial_advice made so far

\* the state of the financial guidance engine's tax helper
guidanceVars == <<federal>>

\* the state of the Watsonx service and of its caller
watsonxVars == <<api_key, access_token, token_expires_at, now, advice, calls>>

vars == <<request, pc, total_deductions, current_tax, tax_after_deductions,
          tax_bracket, frame, strategies, response, parked, guidanceVars,
          watsonxVars>>

\* Python's None; a value that is set is held as a one-element tuple
None == <<>>

\* _calculate_federal_tax is not being called
NoFederalCall == [pc |-> "idle"]

\* generate_financial_advice is not being called
NoAdviceCall == [pc |-> "idle"]

\* the guidance engine's helper at rest
GuidanceAtRest == federal = NoFederalCall

\* watsonx_service.py lines 11-19: the service as constructed without a key,
\* no call made
WatsonxAtRest ==
    /\ api_key = None
    /\ access_token = None
    /\ token_expires_at = None
    /\ now = 0
    /\ advice = NoAdviceCall
    /\ calls = 0

----------------------------------------------------------------------------
(* Bounds and the requests explored *)

\* longest deductions list explored
MaxDeductions == 2

\* incomes explored: below zero, zero, the strategy floors (300000, 500000,
\* 600000), every slab boundary B, B + 50000 and the top slab
Incomes ==
    { -100000, 0, 300000, 400000, 450000, 500000, 600000, 600001, 800000,
      850000, 900000, 1200000, 1250000, 1600000, 1650000, 2000000, 2050000,
      2400000, 2450000, 3000000 }

\* the deduction records a request may carry (category, amount, eligible)
DeductionChoices ==
    { [category |-> "PPF",                amount |-> 200000, eligible |-> TRUE],
      [category |-> "PPF",                amount |-> 500000, eligible |-> FALSE],
      [category |-> "ELSS",               amount |-> 40000,  eligible |-> TRUE],
      [category |-> "Health Insurance",   amount |-> 30000,  eligible |-> TRUE],
      [category |-> "NPS",                amount |-> 50000,  eligible |-> TRUE],
      [category |-> "NPS",                amount |-> -20000, eligible |-> TRUE],
      [category |-> "Home Loan Interest", amount |-> 250000, eligible |-> TRUE],
      [category |-> "Donation",           amount |-> 50000,  eligible |-> TRUE] }

\* user_context: no 'age' key, a numeric age, or an 'age' that is no number
\* (JSON null): Dict[str, Any] accepts all three
UserContexts ==
    { [has_age |-> FALSE, numeric |-> FALSE, age |-> 0],
      [has_age |-> TRUE,  numeric |-> TRUE,  age |-> 59],
      [has_age |-> TRUE,  numeric |-> TRUE,  age |-> 60],
      [has_age |-> TRUE,  numeric |-> FALSE, age |-> 0] }

RECURSIVE SeqsUpTo(_)
SeqsUpTo(n) ==
    IF n = 0 THEN { <<>> }
    ELSE LET shorter == SeqsUpTo(n - 1)
         IN  shorter \cup { Append(s, d) : s \in shorter, d \in DeductionChoices }

Requests ==
    [income : Incomes, deductions : SeqsUpTo(MaxDeductions),
     user_context : UserContexts]

----------------------------------------------------------------------------
(* Arithmetic of the float expressions *)

\* tax amounts are held in units of 1/Scale rupee
Scale == 500

Min(a, b) == IF a <= b THEN a ELSE b
Max(a, b) == IF a >= b THEN a ELSE b

\* Python's round(num / den) for den > 0: to nearest, a tie to the even side
Round(num, den) ==
    LET q == num \div den
        r == num % den
    IN  IF 2 * r < den THEN q
        ELSE IF 2 * r > den THEN q + 1
        ELSE IF q % 2 = 0 THEN q ELSE q + 1

\* Python's round(num / den, 2), in hundredths, for num >= 0 and den > 0
Round2(num, den) ==
    (num \div den) * 100 + Round((num % den) * 100, den)

\* the sum of the amounts of a list of deductions
RECURSIVE SumAmounts(_)
SumAmounts(ds) ==
    IF ds = <<>> THEN 0 ELSE Head(ds).amount + SumAmounts(Tail(ds))

----------------------------------------------------------------------------
(* calculate_indian_tax, lines 19-58 *)

\* lines 21-29; the last slab's limit is float('inf')
tax_slabs ==
    << [limit |-> 400000,  inf |-> FALSE, rate |-> 0],
       [limit |-> 800000,  inf |-> FALSE, rate |-> 5],
       [limit |-> 1200000, inf |-> FALSE, rate |-> 10],
       [limit |-> 1600000, inf |-> FALSE, rate |-> 15],
       [limit |-> 2000000, inf |-> FALSE, rate |-> 20],
       [limit |-> 2400000, inf |-> FALSE, rate |-> 25],
       [limit |-> 0,       inf |-> TRUE,  rate |-> 30] >>

\* line 39 with the subtraction dropped
TaxableInSlab_NoPrevious(remaining_income, slab, previous_limit) ==
    IF slab.inf THEN remaining_income ELSE Min(remaining_income, slab.limit)

\* line 39 with the slab one rupee short: the boundary rupee falls in the
\* slab above
TaxableInSlab_Exclusive(remaining_income, slab, previous_limit) ==
    IF slab.inf THEN remaining_income
    ELSE Min(remaining_income, slab.limit - previous_limit - 1)

\* line 39: min(remaining_income, limit - previous_limit)
TaxableInSlab(remaining_income, slab, previous_limit) ==
    IF slab.inf THEN remaining_income
    ELSE Min(remaining_income, slab.limit - previous_limit)

\* line 40: taxable_in_slab * rate, in 1/Scale rupee
TaxInSlab(taxable_in_slab, rate) == taxable_in_slab * rate * (Scale \div 100)

\* line 41 written as = in place of +=
Accumulate_Overwrite(total_tax, tax_in_slab) == tax_in_slab

\* line 41: total_tax += tax_in_slab
Accumulate(total_tax, tax_in_slab) == total_tax + tax_in_slab

\* lines 35-47: the loop over tax_slabs from slab i on. taxed records the
\* taxable_in_slab of each iteration run.
RECURSIVE SlabLoop(_, _, _, _, _)
SlabLoop(i, total_tax, remaining_income, previous_limit, taxed) ==
    IF i > Len(tax_slabs) \/ remaining_income <= 0
    THEN [total_tax |-> total_tax, taxed |-> taxed]
    ELSE LET slab == tax_slabs[i]
             taxable_in_slab == TaxableInSlab(remaining_income, slab, previous_limit)
             tax_in_slab == TaxInSlab(taxable_in_slab, slab.rate)
             total == Accumulate(total_tax, tax_in_slab)
         IN  IF slab.inf
             THEN [total_tax |-> total, taxed |-> Append(taxed, taxable_in_slab)]
             ELSE SlabLoop(i + 1, total, remaining_income - taxable_in_slab,
                           slab.limit, Append(taxed, taxable_in_slab))

\* lines 31-47
SlabWalk(income) == SlabLoop(1, 0, income, 0, <<>>)

\* line 50: total_tax * 0.04
Cess(total_tax) == (total_tax * 4) \div 100

\* a float division: ZeroDivisionError when the divisor is 0
Divide(num, den) ==
    IF den = 0 THEN [raised |-> "ZeroDivisionError", num |-> 0, den |-> 1]
    ELSE [raised |-> "", num |-> num, den |-> den]

\* line 57 with the guard admitting 0
EffectiveRate_GuardAtZero(total_tax_with_cess, income) ==
    IF income >= 0 THEN Divide(total_tax_with_cess, income * (Scale \div 100))
    ELSE [raised |-> "", num |-> 0, den |-> 1]

\* line 57 with * 1000 in place of * 100:
\* (t / Scale) / income * 1000 = t * (1000 / Scale) / income
EffectiveRate_PerMille(total_tax_with_cess, income) ==
    IF income > 0 THEN Divide(total_tax_with_cess * (1000 \div Scale), income)
    ELSE [raised |-> "", num |-> 0, den |-> 1]

\* line 57: (total_tax_with_cess / income) * 100 if income > 0 else 0, as the
\* fraction num / den: (t / Scale) / income * 100 = t / (income * Scale / 100)
EffectiveRate(total_tax_with_cess, income) ==
    IF income > 0 THEN Divide(total_tax_with_cess, income * (Scale \div 100))
    ELSE [raised |-> "", num |-> 0, den |-> 1]

\* lines 19-58. raised names the exception the call ends with ("" for none).
calculate_indian_tax(income) ==
    LET total_tax == SlabWalk(income).total_tax
        cess == Cess(total_tax)
        total_tax_with_cess == total_tax + cess
        rate == EffectiveRate(total_tax_with_cess, income)
    IN  [raised |-> rate.raised,
         base_tax |-> total_tax,
         cess |-> cess,
         total_tax |-> total_tax_with_cess,
         effective_rate |-> [num |-> rate.num, den |-> rate.den]]

----------------------------------------------------------------------------
(* get_standard_tax_strategies, lines 60-209 *)

\* lines 65-78 with >= in place of >: a boundary income takes the upper rate
TaxBracket_Inclusive(income) ==
    IF income >= 2400000 THEN 30
    ELSE IF income >= 2000000 THEN 25
    ELSE IF income >= 1600000 THEN 20
    ELSE IF income >= 1200000 THEN 15
    ELSE IF income >= 800000 THEN 10
    ELSE IF income >= 400000 THEN 5
    ELSE 0

\* lines 65-78, in percent
TaxBracket(income) ==
    IF income > 2400000 THEN 30
    ELSE IF income > 2000000 THEN 25
    ELSE IF income > 1600000 THEN 20
    ELSE IF income > 1200000 THEN 15
    ELSE IF income > 800000 THEN 10
    ELSE IF income > 400000 THEN 5
    ELSE 0

\* line 83: the categories counted under Section 80C
Section80CCategories == { "EPF", "PPF", "ELSS", "Life Insurance", "NSC" }

section_80c_limit == 150000
nps_additional_limit == 50000
max_deduction == 200000
elss_cap == 150000
income_floor_80c == 300000
income_floor_nps == 500000
income_floor_elss == 600000
senior_age == 60
default_age == 30
health_limit_regular == 25000
health_limit_senior == 50000

\* the category sum with the category test dropped
CategoryTotal_Unfiltered(deductions, categories) == SumAmounts(deductions)

\* the category sum stopping at the first matching deduction
CategoryTotal_FirstMatch(deductions, categories) ==
    LET matching == SelectSeq(deductions, LAMBDA d : d.category \in categories)
    IN  IF matching = <<>> THEN 0 ELSE Head(matching).amount

\* lines 83, 111, 138, 163, 186: sum(d.amount for d in deductions
\* if d.category in categories); the eligible flag is not read
CategoryTotal(deductions, categories) ==
    SumAmounts(SelectSeq(deductions, LAMBDA d : d.category \in categories))

\* the headroom without the clamp
Headroom_Unclamped(limit, current) == limit - current

\* lines 84, 112, 139, 187: max(0, limit - current)
Headroom(limit, current) == Max(0, limit - current)

\* the emission test admitting an exhausted category
Emits_AtZero(remaining) == remaining >= 0

\* lines 86, 114, 141, 189: if remaining > 0
Emits(remaining) == remaining > 0

\* lines 87, 115, 142, 190 without the 4 % cess: round(remaining * tax_bracket)
PotentialSavings_NoCess(num, den, bracket) == Round(num * bracket, den * 100)

\* lines 87, 115, 142, 190 with the cess taken off the rate:
\* round(remaining * (tax_bracket - 0.04))
PotentialSavings_CessSubtracted(num, den, bracket) ==
    Round(num * (bracket - 4), den * 100)

\* lines 87/91, 115/119, 142/146, 190/194:
\* round(remaining * tax_bracket * 1.04), remaining = num / den rupees;
\* (bracket / 100) * 1.04 = bracket * 13 / 1250
PotentialSavings(num, den, bracket) == Round(num * bracket * 13, den * 1250)

\* lines 82-84: the locals of the Section 80C block
Locals80C(income, deductions) ==
    IF income > income_floor_80c
    THEN LET current_80c == CategoryTotal(deductions, Section80CCategories)
         IN  [current_80c |-> current_80c,
              remaining_80c |-> Headroom(section_80c_limit, current_80c)]
    ELSE <<>>

\* lines 80-105: the strategies the Section 80C block appends
Strategy80C(income, deductions, bracket) ==
    LET l == Locals80C(income, deductions)
    IN  IF income > income_floor_80c /\ Emits(l.remaining_80c)
        THEN << [strategy_name |-> "Section 80C Tax Saving Investments",
                 potential_savings |-> PotentialSavings(l.remaining_80c, 1, bracket),
                 recommended_contribution |-> l.remaining_80c,
                 current_utilization |-> l.current_80c,
                 remaining_limit |-> l.remaining_80c,
                 priority |-> "high"] >>
        ELSE <<>>

\* line 108: user_context.get('age', 30)
Age(user_context) ==
    IF user_context.has_age THEN user_context.age ELSE default_age

\* line 109: age < 60 raises TypeError when age is no number
AgeRaises(user_context) == user_context.has_age /\ ~user_context.numeric

\* lines 108-112 with <= in place of < at lines 109-110: age 60 keeps the
\* regular limit
Locals80D_SeniorAbove(deductions, user_context) ==
    LET age == Age(user_context)
        health_insurance_limit ==
            IF age <= senior_age THEN health_limit_regular ELSE health_limit_senior
        parents_limit ==
            IF age <= senior_age THEN health_limit_regular ELSE health_limit_senior
        current_health_premium == CategoryTotal(deductions, { "Health Insurance" })
    IN  [age |-> age,
         health_insurance_limit |-> health_insurance_limit,
         parents_limit |-> parents_limit,
         current_health_premium |-> current_health_premium,
         remaining_health |-> Headroom(health_insurance_limit, current_health_premium)]

\* lines 108-112: the locals of the Section 80D block
Locals80D(deductions, user_context) ==
    LET age == Age(user_context)
        health_insurance_limit ==
            IF age < senior_age THEN health_limit_regular ELSE health_limit_senior
        parents_limit ==
            IF age < senior_age THEN health_limit_regular ELSE health_limit_senior
        current_health_premium == CategoryTotal(deductions, { "Health Insurance" })
    IN  [age |-> age,
         health_insurance_limit |-> health_insurance_limit,
         parents_limit |-> parents_limit,
         current_health_premium |-> current_health_premium,
         remaining_health |-> Headroom(health_insurance_limit, current_health_premium)]

\* lines 107-133
Strategy80D(deductions, user_context, bracket) ==
    LET l == Locals80D(deductions, user_context)
    IN  IF Emits(l.remaining_health)
        THEN << [strategy_name |-> "Section 80D Health Insurance Optimization",
                 potential_savings |-> PotentialSavings(l.remaining_health, 1, bracket),
                 recommended_contribution |-> l.remaining_health,
                 self_family_limit |-> l.health_insurance_limit,
                 parents_additional_limit |-> l.parents_limit,
                 priority |-> "high"] >>
        ELSE <<>>

\* lines 137-139
LocalsNPS(income, deductions) ==
    IF income > income_floor_nps
    THEN LET current_nps == CategoryTotal(deductions, { "NPS" })
         IN  [current_nps |-> current_nps,
              remaining_nps |-> Headroom(nps_additional_limit, current_nps)]
    ELSE <<>>

\* lines 135-159 with >= in place of > at line 136
StrategyNPS_FloorInclusive(income, deductions, bracket) ==
    LET remaining_nps ==
            Headroom(nps_additional_limit, CategoryTotal(deductions, { "NPS" }))
    IN  IF income >= income_floor_nps /\ Emits(remaining_nps)
        THEN << [strategy_name |-> "NPS Additional Deduction (80CCD-1B)",
                 potential_savings |-> PotentialSavings(remaining_nps, 1, bracket),
                 recommended_contribution |-> remaining_nps,
                 additional_to_80c |-> TRUE,
                 priority |-> "medium"] >>
        ELSE <<>>

\* lines 135-159 with the priority of line 157 set to "high"
StrategyNPS_HighPriority(income, deductions, bracket) ==
    LET l == LocalsNPS(income, deductions)
    IN  IF income > income_floor_nps /\ Emits(l.remaining_nps)
        THEN << [strategy_name |-> "NPS Additional Deduction (80CCD-1B)",
                 potential_savings |-> PotentialSavings(l.remaining_nps, 1, bracket),
                 recommended_contribution |-> l.remaining_nps,
                 additional_to_80c |-> TRUE,
                 priority |-> "high"] >>
        ELSE <<>>

\* lines 135-159
StrategyNPS(income, deductions, bracket) ==
    LET l == LocalsNPS(income, deductions)
    IN  IF income > income_floor_nps /\ Emits(l.remaining_nps)
        THEN << [strategy_name |-> "NPS Additional Deduction (80CCD-1B)",
                 potential_savings |-> PotentialSavings(l.remaining_nps, 1, bracket),
                 recommended_contribution |-> l.remaining_nps,
                 additional_to_80c |-> TRUE,
                 priority |-> "medium"] >>
        ELSE <<>>

\* line 162: any(d.category == "Home Loan Interest" for d in deductions)
HasHomeLoan(deductions) ==
    \E i \in 1..Len(deductions) : deductions[i].category = "Home Loan Interest"

\* lines 163-164
LocalsHomeLoan(deductions) ==
    IF HasHomeLoan(deductions)
    THEN [home_loan_interest |-> CategoryTotal(deductions, { "Home Loan Interest" })]
    ELSE <<>>

\* lines 161-181
StrategyHomeLoan(deductions) ==
    LET l == LocalsHomeLoan(deductions)
    IN  IF HasHomeLoan(deductions)
        THEN << [strategy_name |-> "Home Loan Interest Optimization",
                 current_deduction |-> l.home_loan_interest,
                 maximum_allowed |-> max_deduction,
                 priority |-> "medium"] >>
        ELSE <<>>

\* lines 185-187, in tenths of a rupee: min(150000, income * 0.1)
LocalsELSS(income, deductions) ==
    IF income > income_floor_elss
    THEN LET elss_recommendation == Min(elss_cap * 10, income)
             current_elss == CategoryTotal(deductions, { "ELSS" }) * 10
         IN  [elss_recommendation |-> elss_recommendation,
              current_elss |-> current_elss,
              additional_elss |-> Headroom(elss_recommendation, current_elss)]
    ELSE <<>>

\* lines 183-207 with the recommendation held within what Section 80C has
\* left: min(elss_recommendation, remaining_80c) at line 187
StrategyELSS_Within80C(income, deductions, bracket) ==
    LET elss_recommendation == Min(elss_cap * 10, income)
        remaining_80c ==
            Headroom(section_80c_limit, CategoryTotal(deductions, Section80CCategories))
        current_elss == CategoryTotal(deductions, { "ELSS" }) * 10
        additional_elss ==
            Headroom(Min(elss_recommendation, remaining_80c * 10), current_elss)
    IN  IF income > income_floor_elss /\ Emits(additional_elss)
        THEN << [strategy_name |-> "ELSS Mutual Fund Investment",
                 potential_savings |-> PotentialSavings(additional_elss, 10, bracket),
                 recommended_contribution |-> Round(additional_elss, 10),
                 priority |-> "medium"] >>
        ELSE <<>>

\* lines 183-207
StrategyELSS(income, deductions, bracket) ==
    LET l == LocalsELSS(income, deductions)
    IN  IF income > income_floor_elss /\ Emits(l.additional_elss)
        THEN << [strategy_name |-> "ELSS Mutual Fund Investment",
                 potential_savings |-> PotentialSavings(l.additional_elss, 10, bracket),
                 recommended_contribution |-> Round(l.additional_elss, 10),
                 priority |-> "medium"] >>
        ELSE <<>>

\* lines 60-209: the whole call. raised names the exception it ends with.
get_standard_tax_strategies(income, deductions, user_context) ==
    LET bracket == TaxBracket(income)
    IN  IF AgeRaises(user_context)
        THEN [raised |-> "TypeError", strategies |-> <<>>]
        ELSE [raised |-> "",
              strategies |->
                  Strategy80C(income, deductions, bracket)
                  \o Strategy80D(deductions, user_context, bracket)
                  \o StrategyNPS(income, deductions, bracket)
                  \o StrategyHomeLoan(deductions)
                  \o StrategyELSS(income, deductions, bracket)]

----------------------------------------------------------------------------
(* get_tax_optimization_strategies, the /tax-optimization handler,
   lines 211-327 *)

\* a local not yet assigned
Unassigned == <<>>

\* line 215: sum(d.amount for d in request.deductions) with the filter dropped
SumEligible_Unfiltered(deductions) == SumAmounts(deductions)

\* line 215: sum(d.amount for d in request.deductions if d.eligible)
SumEligible(deductions) ==
    SumAmounts(SelectSeq(deductions, LAMBDA d : d.eligible))

\* lines 220, 298: max(0, request.income - total_deductions)
TaxableIncome(income, deductions_total) == Max(0, income - deductions_total)

\* line 312 reading the key recommended_contribution
RECURSIVE SumPotentialSavings_WrongKey(_)
SumPotentialSavings_WrongKey(ss) ==
    IF ss = <<>> THEN 0
    ELSE (IF "recommended_contribution" \in DOMAIN Head(ss)
          THEN Head(ss).recommended_contribution ELSE 0)
         + SumPotentialSavings_WrongKey(Tail(ss))

\* line 312: sum(s.get("potential_savings", 0) for s in strategies)
RECURSIVE SumPotentialSavings(_)
SumPotentialSavings(ss) ==
    IF ss = <<>> THEN 0
    ELSE (IF "potential_savings" \in DOMAIN Head(ss)
          THEN Head(ss).potential_savings ELSE 0)
         + SumPotentialSavings(Tail(ss))

\* line 313: len([s for s in strategies if s.get("priority") == "high"])
HighPriorityActions(ss) ==
    Cardinality({ i \in 1..Len(ss) : ss[i].priority = "high" })

\* lines 291-324: the report returned
Report(req, deductions_total, tax, ss) ==
    [strategies |-> ss,
     current_tax_situation |->
         [gross_income |-> req.income,
          total_deductions |-> deductions_total,
          taxable_income |-> TaxableIncome(req.income, deductions_total),
          tax_calculation |->
              [base_tax |-> Round(tax.base_tax, Scale),
               health_education_cess |-> Round(tax.cess, Scale),
               total_tax_liability |-> Round(tax.total_tax, Scale),
               effective_tax_rate |->
                   Round2(tax.effective_rate.num, tax.effective_rate.den)]],
     optimization_summary |->
         [total_potential_savings |-> SumPotentialSavings(ss),
          high_priority_actions |-> HighPriorityActions(ss)]]

Init ==
    /\ request \in Requests
    /\ pc = "sum_deductions"
    /\ total_deductions = Unassigned
    /\ current_tax = Unassigned
    /\ tax_after_deductions = Unassigned
    /\ tax_bracket = Unassigned
    /\ frame = <<>>
    /\ strategies = <<>>
    /\ response = [status |-> 0]
    /\ parked = <<>>
    /\ GuidanceAtRest
    /\ WatsonxAtRest

\* line 215
SumDeductions ==
    /\ pc = "sum_deductions"
    /\ total_deductions' = SumEligible(request.deductions)
    /\ pc' = "current_tax"
    /\ UNCHANGED <<guidanceVars, watsonxVars, parked, request, current_tax, tax_after_deductions, tax_bracket,
                   frame, strategies, response>>

\* line 219
CalculateCurrentTax ==
    /\ pc = "current_tax"
    /\ current_tax' = calculate_indian_tax(request.income)
    /\ pc' = IF current_tax'.raised = "" THEN "tax_after_deductions" ELSE "except"
    /\ UNCHANGED <<guidanceVars, watsonxVars, parked, request, total_deductions, tax_after_deductions, tax_bracket,
                   frame, strategies, response>>

\* line 220
CalculateTaxAfterDeductions ==
    /\ pc = "tax_after_deductions"
    /\ tax_after_deductions' =
           calculate_indian_tax(TaxableIncome(request.income, total_deductions))
    /\ pc' = IF tax_after_deductions'.raised = "" THEN "section_80c" ELSE "except"
    /\ UNCHANGED <<guidanceVars, watsonxVars, parked, request, total_deductions, current_tax, tax_bracket,
                   frame, strategies, response>>

\* line 223, into get_standard_tax_strategies: lines 62-105
Section80C ==
    /\ pc = "section_80c"
    /\ tax_bracket' = TaxBracket(request.income)
    /\ frame' = frame @@ Locals80C(request.income, request.deductions)
    /\ strategies' =
           strategies \o Strategy80C(request.income, request.deductions, tax_bracket')
    /\ pc' = "section_80d"
    /\ UNCHANGED <<guidanceVars, watsonxVars, parked, request, total_deductions, current_tax, tax_after_deductions,
                   response>>

\* lines 107-133; line 109 raises when age is no number
Section80D ==
    /\ pc = "section_80d"
    /\ IF AgeRaises(request.user_context)
       THEN /\ pc' = "except"
            /\ UNCHANGED <<frame, strategies>>
       ELSE /\ frame' = frame @@ Locals80D(request.deductions, request.user_context)
            /\ strategies' =
                   strategies
                   \o Strategy80D(request.deductions, request.user_context, tax_bracket)
            /\ pc' = "nps"
    /\ UNCHANGED <<guidanceVars, watsonxVars, parked, request, total_deductions, current_tax, tax_after_deductions,
                   tax_bracket, response>>

\* lines 135-159
NPS ==
    /\ pc = "nps"
    /\ frame' = frame @@ LocalsNPS(request.income, request.deductions)
    /\ strategies' =
           strategies \o StrategyNPS(request.income, request.deductions, tax_bracket)
    /\ pc' = "home_loan"
    /\ UNCHANGED <<guidanceVars, watsonxVars, parked, request, total_deductions, current_tax, tax_after_deductions,
                   tax_bracket, response>>

\* lines 161-181
HomeLoan ==
    /\ pc = "home_loan"
    /\ frame' = frame @@ LocalsHomeLoan(request.deductions)
    /\ strategies' = strategies \o StrategyHomeLoan(request.deductions)
    /\ pc' = "elss"
    /\ UNCHANGED <<guidanceVars, watsonxVars, parked, request, total_deductions, current_tax, tax_after_deductions,
                   tax_bracket, response>>

\* lines 183-209
ELSS ==
    /\ pc = "elss"
    /\ frame' = frame @@ LocalsELSS(request.income, request.deductions)
    /\ strategies' =
           strategies \o StrategyELSS(request.income, request.deductions, tax_bracket)
    /\ pc' = "respond"
    /\ UNCHANGED <<guidanceVars, watsonxVars, parked, request, total_deductions, current_tax, tax_after_deductions,
                   tax_bracket, response>>

\* lines 291-324
Respond ==
    /\ pc = "respond"
    /\ response' =
           [status |-> 200,
            body |-> Report(request, total_deductions, current_tax, strategies)]
    /\ pc' = "done"
    /\ UNCHANGED <<guidanceVars, watsonxVars, parked, request, total_deductions, current_tax, tax_after_deductions,
                   tax_bracket, frame, strategies>>

\* lines 326-327 swallowing the exception: a report built from what the
\* handler has so far
RaiseHTTPException_Swallowed ==
    /\ pc = "except"
    /\ response' =
           [status |-> 200,
            body |-> Report(request, total_deductions, current_tax, strategies)]
    /\ pc' = "done"
    /\ UNCHANGED <<guidanceVars, watsonxVars, parked, request, total_deductions, current_tax, tax_after_deductions,
                   tax_bracket, frame, strategies>>

\* lines 326-327: except Exception -> HTTPException(status_code=500)
RaiseHTTPException ==
    /\ pc = "except"
    /\ response' = [status |-> 500]
    /\ pc' = "failed"
    /\ UNCHANGED <<guidanceVars, watsonxVars, parked, request, total_deductions, current_tax, tax_after_deductions,
                   tax_bracket, frame, strategies>>

Next ==
    \/ SumDeductions
    \/ CalculateCurrentTax
    \/ CalculateTaxAfterDeductions
    \/ Section80C
    \/ Section80D
    \/ NPS
    \/ HomeLoan
    \/ ELSS
    \/ Respond
    \/ RaiseHTTPException

Spec == Init /\ [][Next]_vars

----------------------------------------------------------------------------
(* Concurrent invocations of the handler.  The server interleaves requests;
   every invocation has its own request, its own position and its own locals
   (the handler and the two functions it calls assign local names only: the
   slab table of lines 21-29, the caps and the list of line 62 are created
   anew in each call).  The invocation being run is held in the variables
   above, the others wait in parked; a switch may come between any two
   steps. *)

\* most invocations waiting while one runs
MaxParked == 1

\* the requests served concurrently
ConcurrentRequests ==
    { [income |-> 900000,
       deductions |-> << [category |-> "PPF", amount |-> 200000, eligible |-> TRUE] >>,
       user_context |-> [has_age |-> FALSE, numeric |-> FALSE, age |-> 0]],
      [income |-> 1250000,
       deductions |-> << [category |-> "Home Loan Interest", amount |-> 250000,
                          eligible |-> TRUE] >>,
       user_context |-> [has_age |-> TRUE, numeric |-> TRUE, age |-> 60]],
      [income |-> 450000,
       deductions |-> <<>>,
       user_context |-> [has_age |-> TRUE, numeric |-> FALSE, age |-> 0]] }

\* an invocation that has not started: lines 211-214
NewInvocation(req) ==
    [request |-> req,
     pc |-> "sum_deductions",
     total_deductions |-> Unassigned,
     current_tax |-> Unassigned,
     tax_after_deductions |-> Unassigned,
     tax_bracket |-> Unassigned,
     frame |-> <<>>,
     strategies |-> <<>>,
     response |-> [status |-> 0]]

\* the invocation being run, as it is parked
RunningInvocation ==
    [request |-> request,
     pc |-> pc,
     total_deductions |-> total_deductions,
     current_tax |-> current_tax,
     tax_after_deductions |-> tax_after_deductions,
     tax_bracket |-> tax_bracket,
     frame |-> frame,
     strategies |-> strategies,
     response |-> response]

\* line 62 with strategies a module-level list: every invocation appends to
\* the one list
StrategiesOf_ModuleLevel(invocation) == strategies

\* line 62: strategies = [] is a local of the call, one list per invocation
StrategiesOf(invocation) == invocation.strategies

\* the server turns from the running invocation to the parked invocation i
Switch ==
    \E i \in DOMAIN parked :
        /\ request' = parked[i].request
        /\ pc' = parked[i].pc
        /\ total_deductions' = parked[i].total_deductions
        /\ current_tax' = parked[i].current_tax
        /\ tax_after_deductions' = parked[i].tax_after_deductions
        /\ tax_bracket' = parked[i].tax_bracket
        /\ frame' = parked[i].frame
        /\ strategies' = StrategiesOf(parked[i])
        /\ response' = parked[i].response
        /\ parked' = [parked EXCEPT ![i] = RunningInvocation]
        /\ UNCHANGED <<guidanceVars, watsonxVars>>

ConcurrentInit ==
    /\ request \in ConcurrentRequests
    /\ pc = "sum_deductions"
    /\ total_deductions = Unassigned
    /\ current_tax = Unassigned
    /\ tax_after_deductions = Unassigned
    /\ tax_bracket = Unassigned
    /\ frame = <<>>
    /\ strategies = <<>>
    /\ response = [status |-> 0]
    /\ parked \in [1..MaxParked -> { NewInvocation(r) : r \in ConcurrentRequests }]
    /\ GuidanceAtRest
    /\ WatsonxAtRest

ConcurrentNext ==
    \/ SumDeductions
    \/ CalculateCurrentTax
    \/ CalculateTaxAfterDeductions
    \/ Section80C
    \/ Section80D
    \/ NPS
    \/ HomeLoan
    \/ ELSS
    \/ Respond
    \/ RaiseHTTPException
    \/ Switch

ConcurrentSpec == ConcurrentInit /\ [][ConcurrentNext]_vars

----------------------------------------------------------------------------
(* FinancialGuidanceEngine._calculate_federal_tax,
   backend/services/financial_guidance.py lines 344-357, over TAX_BRACKETS
   (lines 32-40).  Incomes are whole dollars, a rate is held in percent and
   tax in cents. *)

\* the tax handler serving no request
NoRequest ==
    [income |-> 0, deductions |-> <<>>,
     user_context |-> [has_age |-> FALSE, numeric |-> FALSE, age |-> 0]]

TaxHandlerAtRest ==
    /\ request = NoRequest
    /\ pc = "idle"
    /\ total_deductions = Unassigned
    /\ current_tax = Unassigned
    /\ tax_after_deductions = Unassigned
    /\ tax_bracket = Unassigned
    /\ frame = <<>>
    /\ strategies = <<>>
    /\ response = [status |-> 0]
    /\ parked = <<>>

taxVars == <<request, pc, total_deductions, current_tax, tax_after_deductions,
             tax_bracket, frame, strategies, response, parked>>

\* lines 32-40; the last bracket's limit is float('inf')
TAX_BRACKETS ==
    << [limit |-> 11000,  inf |-> FALSE, rate |-> 10],
       [limit |-> 44725,  inf |-> FALSE, rate |-> 12],
       [limit |-> 95375,  inf |-> FALSE, rate |-> 22],
       [limit |-> 182050, inf |-> FALSE, rate |-> 24],
       [limit |-> 231250, inf |-> FALSE, rate |-> 32],
       [limit |-> 578125, inf |-> FALSE, rate |-> 35],
       [limit |-> 0,      inf |-> TRUE,  rate |-> 37] >>

\* annual incomes explored: below zero, zero, the bracket limits and incomes
\* inside every bracket
FederalIncomes ==
    { -12000, 0, 5000, 11000, 20000, 44725, 60000, 84375, 90000, 95375, 100000,
      115325, 115326, 120000, 150000, 182050, 200000, 231250, 250000, 300000,
      400000, 578125, 600000, 700000 }

\* line 353: self.TAX_BRACKETS.index((bracket_limit, rate)), the first position
\* holding the tuple, counted from 0
IndexOf(bracket) ==
    (CHOOSE i \in 1..Len(TAX_BRACKETS) :
        /\ TAX_BRACKETS[i] = bracket
        /\ \A j \in 1..(i - 1) : TAX_BRACKETS[j] # bracket) - 1

\* line 353: sum(limit for limit, _ in self.TAX_BRACKETS[:n]), the limits of
\* the first n brackets added up
RECURSIVE SumOfLimits(_)
SumOfLimits(n) ==
    IF n = 0 THEN 0 ELSE SumOfLimits(n - 1) + TAX_BRACKETS[n].limit

\* line 353: min(remaining_income, bracket_limit - sum(...)); inf less a
\* finite sum is inf
TaxableInBracket(remaining_income, bracket) ==
    IF bracket.inf THEN remaining_income
    ELSE Min(remaining_income, bracket.limit - SumOfLimits(IndexOf(bracket)))

\* line 164 into lines 344-347
CallFederalTax ==
    /\ federal = NoFederalCall
    /\ \E income \in FederalIncomes :
           federal' = [pc |-> "loop",
                       income |-> income,
                       tax |-> 0,
                       remaining_income |-> income,
                       position |-> 1,
                       taxed |-> <<>>]
    /\ UNCHANGED <<taxVars, watsonxVars>>

\* lines 349-355: one pass of the loop body
FederalBracket ==
    /\ federal.pc = "loop"
    /\ federal.position <= Len(TAX_BRACKETS)
    /\ federal.remaining_income > 0
    /\ LET bracket == TAX_BRACKETS[federal.position]
           taxable_in_bracket == TaxableInBracket(federal.remaining_income, bracket)
       IN  federal' =
               [federal EXCEPT
                   !.tax = @ + taxable_in_bracket * bracket.rate,
                   !.remaining_income = @ - taxable_in_bracket,
                   !.position = @ + 1,
                   !.taxed = Append(@, taxable_in_bracket)]
    /\ UNCHANGED <<taxVars, watsonxVars>>

\* lines 350-351 and 357: the break, or the list run through, and the return
FederalReturn ==
    /\ federal.pc = "loop"
    /\ federal.position > Len(TAX_BRACKETS) \/ federal.remaining_income <= 0
    /\ federal' = [federal EXCEPT !.pc = "returned"]
    /\ UNCHANGED <<taxVars, watsonxVars>>

GuidanceInit ==
    /\ TaxHandlerAtRest
    /\ GuidanceAtRest
    /\ WatsonxAtRest

GuidanceNext ==
    \/ CallFederalTax
    \/ FederalBracket
    \/ FederalReturn

GuidanceSpec == GuidanceInit /\ [][GuidanceNext]_vars

----------------------------------------------------------------------------
(* WatsonxService, backend/services/watsonx_service.py: the cached IAM token
   (lines 30-72) and generate_financial_advice (lines 74-139) with its
   fallback (lines 183-212).  The two HTTP requests are answered by the
   outside world: every answer the code distinguishes is explored.  Times are
   seconds.  A text is held as the lengths of its leading whitespace, its
   content and its trailing whitespace, so that strip() has something to
   remove. *)

\* most calls of generate_financial_advice in one run
MaxCalls == 2

\* the clock runs for at most MaxTicks steps of 1800 seconds
MaxTicks == 2

\* a value that is set
Some(v) == << v >>

\* the queries and user contexts the callers pass; a query is held as the set
\* of fallback keywords its lower-cased text contains
AdviceRequests ==
    { [query |-> {}, user_context |-> [has_userType |-> FALSE, userType |-> ""]],
      [query |-> { "budget", "investment" },
       user_context |-> [has_userType |-> TRUE, userType |-> "student"]],
      [query |-> { "budget", "investment" },
       user_context |-> [has_userType |-> TRUE, userType |-> "professional"]],
      [query |-> { "debt" },
       user_context |-> [has_userType |-> TRUE, userType |-> "retiree"]] }

\* the "expires_in" of an IAM token body: absent, a number of seconds, or a
\* value that is no number (JSON null, a string)
ExpiresIn(present, numeric, seconds) ==
    [present |-> present, numeric |-> numeric, seconds |-> seconds]

\* what the IAM token request of line 43 can come to
TokenOutcomes ==
    { [kind |-> "network_error", expires_in |-> ExpiresIn(FALSE, FALSE, 0)],
      [kind |-> "status_not_200", expires_in |-> ExpiresIn(FALSE, FALSE, 0)],
      [kind |-> "body_not_json", expires_in |-> ExpiresIn(FALSE, FALSE, 0)],
      [kind |-> "no_access_token", expires_in |-> ExpiresIn(FALSE, FALSE, 0)],
      [kind |-> "token", expires_in |-> ExpiresIn(FALSE, FALSE, 0)],
      [kind |-> "token", expires_in |-> ExpiresIn(TRUE, TRUE, 2100)],
      [kind |-> "token", expires_in |-> ExpiresIn(TRUE, TRUE, 300)],
      [kind |-> "token", expires_in |-> ExpiresIn(TRUE, FALSE, 0)] }

\* the texts a generation body may carry under "output_text"
Texts ==
    { [leading |-> 0, content |-> 0,  trailing |-> 0],
      [leading |-> 12, content |-> 0, trailing |-> 0],
      [leading |-> 3, content |-> 10, trailing |-> 2],
      [leading |-> 1, content |-> 11, trailing |-> 1] }

\* what a generation request (lines 98, 109) can come to
GenerationOutcomes ==
    { [kind |-> "network_error", status |-> 0, body |-> None],
      [kind |-> "response", status |-> 401, body |-> None],
      [kind |-> "response", status |-> 500, body |-> None],
      [kind |-> "response", status |-> 200, body |-> [json |-> FALSE]],
      [kind |-> "response", status |-> 200,
       body |-> [json |-> TRUE, has_output_text |-> FALSE]],
      [kind |-> "response", status |-> 200,
       body |-> [json |-> TRUE, has_output_text |-> TRUE, is_text |-> FALSE]] }
    \cup
    { [kind |-> "response", status |-> 200,
       body |-> [json |-> TRUE, has_output_text |-> TRUE, is_text |-> TRUE,
                 output_text |-> t]] : t \in Texts }

\* lines 26-28
IsConfigured == api_key # None

\* str.strip()
Strip(text) == [leading |-> 0, content |-> text.content, trailing |-> 0]

\* len(text)
Length(text) == text.leading + text.content + text.trailing

\* lines 187-201: the keywords of each profile, in the order of the dict
FallbackKeywords(profile) ==
    IF profile = "student"
    THEN << "budget", "savings", "debt", "investment" >>
    ELSE << "investment", "retirement", "taxes", "budget" >>

\* line 185 and line 206: user_context.get('userType', 'user'), then
\* fallback_responses.get(user_type, fallback_responses["professional"])
FallbackProfile(user_context) ==
    IF user_context.has_userType /\ user_context.userType = "student"
    THEN "student"
    ELSE "professional"

\* lines 183-212: the first keyword of the profile found in the query names
\* the text returned, "default" when none is found
GetFallbackResponse(query, user_context) ==
    LET profile == FallbackProfile(user_context)
        keywords == FallbackKeywords(profile)
        found == { i \in 1..Len(keywords) : keywords[i] \in query }
    IN  [kind |-> "fallback",
         profile |-> profile,
         keyword |-> IF found = {} THEN "default"
                     ELSE keywords[CHOOSE i \in found : \A j \in found : i <= j]]

\* line 70: not self.access_token or not self.token_expires_at
\*          or datetime.now() >= self.token_expires_at
NeedsToken ==
    \/ access_token = None
    \/ token_expires_at = None
    \/ now >= token_expires_at[1]

\* line 58: token_data.get("expires_in", 3600)
ExpiresInOrDefault(expires_in) ==
    IF expires_in.present THEN expires_in ELSE ExpiresIn(TRUE, TRUE, 3600)

\* lines 30-66 on the answer o of the token request: the two fields after the
\* call and the exception it ends with ("" when it returns the token).
\* Line 55 assigns access_token before line 59 computes the expiry, and
\* expires_in - 300 raises TypeError when expires_in is no number.
FetchAccessToken(o) ==
    IF o.kind # "token"
    THEN [raised |-> "Exception",
          access_token |-> access_token,
          token_expires_at |-> token_expires_at]
    ELSE LET token == Some([call |-> calls, request |-> advice.token_requests + 1])
             expires_in == ExpiresInOrDefault(o.expires_in)
         IN  IF expires_in.numeric
             THEN [raised |-> "",
                   access_token |-> token,
                   token_expires_at |-> Some(now + expires_in.seconds - 300)]
             ELSE [raised |-> "Exception",
                   access_token |-> token,
                   token_expires_at |-> token_expires_at]

\* line 122 with the length test dropped
ValidText_NoLengthCheck(text) == Length(text) > 0

\* line 122: generated_text and len(generated_text.strip()) > 10
ValidText(text) == Length(text) > 0 /\ Length(Strip(text)) > 10

\* the call ends returning the fallback text: lines 80, 112, 116, 128, 132,
\* 135
ReturnFallback(call) ==
    [call EXCEPT !.result = GetFallbackResponse(call.query, call.user_context),
                 !.pc = "returned"]

\* lines 74-80: the call is entered; without an API key it returns the
\* fallback at once
StartCall ==
    /\ advice.pc = "idle"
    /\ calls < MaxCalls
    /\ calls' = calls + 1
    /\ \E r \in AdviceRequests :
           LET entered == [pc |-> "ensure_token",
                           query |-> r.query,
                           user_context |-> r.user_context,
                           token |-> None,
                           response |-> None,
                           raised |-> "",
                           result |-> None,
                           token_requests |-> 0,
                           generation_requests |-> 0]
           IN  advice' = IF IsConfigured THEN entered ELSE ReturnFallback(entered)
    /\ UNCHANGED <<taxVars, guidanceVars, api_key, access_token, token_expires_at, now>>

\* line 84 into lines 68-72 and 30-66
EnsureValidToken ==
    /\ advice.pc = "ensure_token"
    /\ IF NeedsToken
       THEN \E o \in TokenOutcomes :
                LET fetched == FetchAccessToken(o)
                IN  /\ access_token' = fetched.access_token
                    /\ token_expires_at' = fetched.token_expires_at
                    /\ advice' =
                           [advice EXCEPT
                               !.token_requests = @ + 1,
                               !.raised = fetched.raised,
                               !.token = IF fetched.raised = ""
                                         THEN fetched.access_token ELSE @,
                               !.pc = IF fetched.raised = ""
                                      THEN "generate" ELSE "except"]
       ELSE /\ advice' = [advice EXCEPT !.token = access_token, !.pc = "generate"]
            /\ UNCHANGED <<access_token, token_expires_at>>
    /\ UNCHANGED <<taxVars, guidanceVars, api_key, now, calls>>

\* lines 86-100: the generation request and the test for 401
GenerationRequest ==
    /\ advice.pc = "generate"
    /\ \E o \in GenerationOutcomes :
           advice' =
               IF o.kind = "network_error"
               THEN [advice EXCEPT !.generation_requests = @ + 1,
                                   !.raised = "RequestException",
                                   !.pc = "except"]
               ELSE [advice EXCEPT !.generation_requests = @ + 1,
                                   !.response = [status |-> o.status, body |-> o.body],
                                   !.pc = IF o.status = 401
                                          THEN "clear_token" ELSE "check_response"]
    /\ UNCHANGED <<taxVars, guidanceVars, api_key, access_token, token_expires_at,
                   now, calls>>

\* lines 101-104
ClearToken ==
    /\ advice.pc = "clear_token"
    /\ access_token' = None
    /\ token_expires_at' = None
    /\ advice' = [advice EXCEPT !.pc = "refresh"]
    /\ UNCHANGED <<taxVars, guidanceVars, api_key, now, calls>>

\* lines 106-108, and 110-112 when the fetch raises
RefreshToken ==
    /\ advice.pc = "refresh"
    /\ IF NeedsToken
       THEN \E o \in TokenOutcomes :
                LET fetched == FetchAccessToken(o)
                    counted == [advice EXCEPT !.token_requests = @ + 1]
                IN  /\ access_token' = fetched.access_token
                    /\ token_expires_at' = fetched.token_expires_at
                    /\ advice' =
                           IF fetched.raised = ""
                           THEN [counted EXCEPT !.token = fetched.access_token,
                                                !.pc = "retry"]
                           ELSE ReturnFallback(counted)
       ELSE /\ advice' = [advice EXCEPT !.token = access_token, !.pc = "retry"]
            /\ UNCHANGED <<access_token, token_expires_at>>
    /\ UNCHANGED <<taxVars, guidanceVars, api_key, now, calls>>

\* line 109, and 110-112 when the request raises
RetryGeneration ==
    /\ advice.pc = "retry"
    /\ \E o \in GenerationOutcomes :
           LET counted == [advice EXCEPT !.generation_requests = @ + 1]
           IN  advice' =
                   IF o.kind = "network_error"
                   THEN ReturnFallback(counted)
                   ELSE [counted EXCEPT
                            !.response = [status |-> o.status, body |-> o.body],
                            !.pc = "check_response"]
    /\ UNCHANGED <<taxVars, guidanceVars, api_key, access_token, token_expires_at,
                   now, calls>>

\* lines 114-128 with a 401 sent round again
CheckResponse_RetryOn401 ==
    /\ advice.pc = "check_response"
    /\ LET body == advice.response.body
       IN  advice' =
               IF advice.response.status = 401
               THEN [advice EXCEPT !.pc = "clear_token"]
               ELSE IF advice.response.status # 200
               THEN ReturnFallback(advice)
               ELSE IF ~body.json
               THEN [advice EXCEPT !.raised = "Exception", !.pc = "except"]
               ELSE IF ~body.has_output_text
               THEN ReturnFallback(advice)
               ELSE IF ~body.is_text
               THEN [advice EXCEPT !.raised = "Exception", !.pc = "except"]
               ELSE IF ValidText(body.output_text)
               THEN [advice EXCEPT
                        !.result = [kind |-> "generated",
                                    text |-> Strip(body.output_text)],
                        !.pc = "returned"]
               ELSE ReturnFallback(advice)
    /\ UNCHANGED <<taxVars, guidanceVars, api_key, access_token, token_expires_at,
                   now, calls>>

\* lines 114-128: a status other than 200 gives the fallback; response.json()
\* raises on a body that is no JSON, and .strip() on an output_text that is
\* no text
CheckResponse ==
    /\ advice.pc = "check_response"
    /\ LET body == advice.response.body
       IN  advice' =
               IF advice.response.status # 200
               THEN ReturnFallback(advice)
               ELSE IF ~body.json
               THEN [advice EXCEPT !.raised = "Exception", !.pc = "except"]
               ELSE IF ~body.has_output_text
               THEN ReturnFallback(advice)
               ELSE IF ~body.is_text
               THEN [advice EXCEPT !.raised = "Exception", !.pc = "except"]
               ELSE IF ValidText(body.output_text)
               THEN [advice EXCEPT
                        !.result = [kind |-> "generated",
                                    text |-> Strip(body.output_text)],
                        !.pc = "returned"]
               ELSE ReturnFallback(advice)
    /\ UNCHANGED <<taxVars, guidanceVars, api_key, access_token, token_expires_at,
                   now, calls>>

\* lines 130-135 with the clause of line 133 missing: anything but a
\* RequestException leaves the call
HandleException_RequestOnly ==
    /\ advice.pc = "except"
    /\ advice' = IF advice.raised = "RequestException"
                 THEN ReturnFallback(advice)
                 ELSE [advice EXCEPT !.pc = "propagated"]
    /\ UNCHANGED <<taxVars, guidanceVars, api_key, access_token, token_expires_at,
                   now, calls>>

\* lines 130-135: both except clauses return the fallback
HandleException ==
    /\ advice.pc = "except"
    /\ advice' = ReturnFallback(advice)
    /\ UNCHANGED <<taxVars, guidanceVars, api_key, access_token, token_expires_at,
                   now, calls>>

\* the caller has the advice (chat.py line 207, ai_service.py line 144)
ReturnAdvice ==
    /\ advice.pc = "returned"
    /\ advice' = NoAdviceCall
    /\ UNCHANGED <<taxVars, guidanceVars, api_key, access_token, token_expires_at,
                   now, calls>>

\* time passes
Tick ==
    /\ now < MaxTicks * 1800
    /\ now' = now + 1800
    /\ UNCHANGED <<taxVars, guidanceVars, api_key, access_token, token_expires_at,
                   advice, calls>>

\* lines 11-19: the service constructed with or without WATSONX_API_KEY
WatsonxInit ==
    /\ TaxHandlerAtRest
    /\ GuidanceAtRest
    /\ api_key \in { None, Some("key") }
    /\ access_token = None
    /\ token_expires_at = None
    /\ now = 0
    /\ advice = NoAdviceCall
    /\ calls = 0

WatsonxNext ==
    \/ StartCall
    \/ EnsureValidToken
    \/ GenerationRequest
    \/ ClearToken
    \/ RefreshToken
    \/ RetryGeneration
    \/ CheckResponse
    \/ HandleException
    \/ ReturnAdvice
    \/ Tick

WatsonxSpec == WatsonxInit /\ [][WatsonxNext]_vars

----------------------------------------------------------------------------
(* What the claims speak of *)

\* current_tax has been assigned (line 219 has run)
HasCurrentTax == pc \notin { "sum_deductions", "current_tax" }

\* tax_after_deductions has been assigned (line 220 has run)
HasTaxAfter == HasCurrentTax /\ pc # "tax_after_deductions"

\* get_standard_tax_strategies has returned its list
HasStrategies == pc \in { "respond", "done" }

\* the income line 220 passes to calculate_indian_tax
NetIncome == TaxableIncome(request.income, SumEligible(request.deductions))

\* the sum of the amounts of the deductions at the indices I, by index
RECURSIVE SumOver(_, _)
SumOver(ds, I) ==
    IF I = {} THEN 0
    ELSE LET i == CHOOSE j \in I : TRUE
         IN  ds[i].amount + SumOver(ds, I \ {i})

\* the amount the request claims in the categories cats
ClaimedIn(cats) ==
    SumOver(request.deductions,
            { i \in 1..Len(request.deductions) : request.deductions[i].category \in cats })

\* the list ds without its i-th element
RemoveAt(ds, i) == SubSeq(ds, 1, i - 1) \o SubSeq(ds, i + 1, Len(ds))

\* lower and upper end of slab i as the claims' table gives them
SlabLower(i) == IF i = 1 THEN 0 ELSE tax_slabs[i - 1].limit
SlabPortion(income, i) ==
    LET upto == IF tax_slabs[i].inf THEN income ELSE Min(income, tax_slabs[i].limit)
    IN  Max(0, upto - SlabLower(i))

\* sum over the slabs 1..n of rate * max(0, min(income, upper) - previous),
\* in 1/Scale rupee
RECURSIVE SlabSum(_, _)
SlabSum(income, n) ==
    IF n = 0 THEN 0
    ELSE SlabSum(income, n - 1)
         + SlabPortion(income, n) * tax_slabs[n].rate * (Scale \div 100)

TaxIsSlabSum(income, tax) ==
    /\ tax.base_tax = SlabSum(income, Len(tax_slabs))
    /\ tax.cess * 100 = tax.base_tax * 4
    /\ tax.total_tax = tax.base_tax + tax.cess

\* C1: for every income >= 0 calculate_indian_tax returns base_tax equal to the
\* sum over the slab table of rate * max(0, min(income, upper_bound) -
\* previous_bound), cess equal to 4 % of base_tax and total_tax = base_tax +
\* cess; income 900000 gives 30000, 1200 and 31200.
C1_SlabSum ==
    /\ (HasCurrentTax /\ request.income >= 0)
           => TaxIsSlabSum(request.income, current_tax)
    /\ HasTaxAfter => TaxIsSlabSum(NetIncome, tax_after_deductions)
    /\ (HasCurrentTax /\ request.income = 900000)
           => /\ current_tax.base_tax = 30000 * Scale
              /\ current_tax.cess = 1200 * Scale
              /\ current_tax.total_tax = 31200 * Scale

C1_Witness ==
    /\ pc = "done"
    /\ request.income = 900000
    /\ current_tax.total_tax = 31200 * Scale
    /\ NetIncome > 0 /\ NetIncome < request.income

\* the slab boundaries: the limits of the bounded slabs
BoundarySlabs == { k \in 1..Len(tax_slabs) : ~tax_slabs[k].inf }

\* income is above the boundary of slab k by less than the width of slab k + 1
JustAbove(income, k) ==
    /\ income > tax_slabs[k].limit
    /\ tax_slabs[k + 1].inf \/ income < tax_slabs[k + 1].limit

BoundaryConvention(income, tax) ==
    \A k \in BoundarySlabs :
        /\ income = tax_slabs[k].limit =>
              LET taxed == SlabWalk(income).taxed
              IN  /\ \A j \in 1..Len(taxed) : j > k => taxed[j] = 0
                  /\ \A j \in 1..k :
                         taxed[j] = tax_slabs[j].limit - SlabLower(j)
                  /\ tax.base_tax = SlabSum(income, k)
        /\ JustAbove(income, k) =>
              tax.base_tax - calculate_indian_tax(tax_slabs[k].limit).base_tax
                  = (income - tax_slabs[k].limit) * tax_slabs[k + 1].rate
                    * (Scale \div 100)

\* C2: an income exactly at a slab boundary B is taxed entirely within the
\* slabs up to and including the one ending at B, and for B + e, e > 0 smaller
\* than the next slab's width, base_tax(B + e) - base_tax(B) is e times the
\* next slab's rate.
C2_BoundaryInLowerSlab ==
    /\ HasCurrentTax => BoundaryConvention(request.income, current_tax)
    /\ HasTaxAfter => BoundaryConvention(NetIncome, tax_after_deductions)

C2_Witness ==
    /\ pc = "done"
    /\ request.income = 850000
    /\ NetIncome = 800000
    /\ tax_after_deductions.base_tax = 20000 * Scale
    /\ current_tax.base_tax = 25000 * Scale

\* the fraction lies in [lo, hi]
RateWithin(rate, lo, hi) ==
    /\ rate.den > 0
    /\ lo * rate.den <= rate.num
    /\ rate.num <= hi * rate.den

C4_Monotone ==
    /\ HasTaxAfter =>
          /\ (0 <= request.income /\ request.income < NetIncome)
                 => current_tax.total_tax <= tax_after_deductions.total_tax
          /\ NetIncome < request.income
                 => tax_after_deductions.total_tax <= current_tax.total_tax
    /\ HasCurrentTax =>
          \A lower \in Incomes :
              (0 <= lower /\ lower < request.income)
                  => calculate_indian_tax(lower).total_tax <= current_tax.total_tax

C4_Witness ==
    /\ pc = "done"
    /\ NetIncome > 0
    /\ NetIncome < request.income
    /\ tax_after_deductions.total_tax > 0
    /\ tax_after_deductions.total_tax < current_tax.total_tax

AllZero(tax) ==
    /\ tax.raised = ""
    /\ tax.base_tax = 0
    /\ tax.cess = 0
    /\ tax.total_tax = 0
    /\ tax.effective_rate.num = 0
    /\ tax.effective_rate.den # 0

\* C5: calculate_indian_tax(0) completes without a division-by-zero error and
\* returns base_tax = 0, cess = 0, total_tax = 0 and effective_rate = 0.
C5_ZeroIncome ==
    /\ (HasCurrentTax /\ request.income = 0)
           => AllZero(current_tax)
    /\ (HasTaxAfter /\ NetIncome = 0)
           => AllZero(tax_after_deductions)

C5_Witness ==
    /\ pc = "done"
    /\ request.income = 0
    /\ response.status = 200
    /\ response.body.current_tax_situation.tax_calculation.effective_tax_rate = 0

\* C6: a negative income is rejected with an InvalidInput error and no result
\* is produced: calculate_indian_tax fails instead of returning a tax record,
\* get_standard_tax_strategies fails instead of returning a strategy list.
C6_NegativeIncomeRejected ==
    request.income < 0 =>
        /\ HasCurrentTax => current_tax.raised = "InvalidInput"
        /\ ~HasStrategies
        /\ response.status # 200

\* C7: a deduction with eligible = false never contributes to a strategy:
\* the returned strategy list is the one the request gets without its
\* eligible = false deductions.
C7_IneligibleNeverCounts ==
    HasStrategies =>
        strategies =
            get_standard_tax_strategies(
                request.income,
                SelectSeq(request.deductions, LAMBDA d : d.eligible),
                request.user_context).strategies

\* C8: in the report total_deductions is the sum of amount over exactly the
\* deductions with eligible = true, of any category; a deduction with
\* eligible = false changes neither total_deductions nor taxable_income.
C8_TotalDeductionsEligibleOnly ==
    pc = "done" =>
        LET situation == response.body.current_tax_situation
            ds == request.deductions
            eligible_sum == SumOver(ds, { i \in 1..Len(ds) : ds[i].eligible })
        IN  /\ situation.total_deductions = eligible_sum
            /\ situation.taxable_income = Max(0, request.income - eligible_sum)
            /\ \A i \in 1..Len(ds) :
                   ~ds[i].eligible =>
                       /\ SumEligible(RemoveAt(ds, i)) = situation.total_deductions
                       /\ TaxableIncome(request.income, SumEligible(RemoveAt(ds, i)))
                              = situation.taxable_income

C8_Witness ==
    /\ pc = "done"
    /\ \E i, j \in 1..Len(request.deductions) :
           /\ ~request.deductions[i].eligible
           /\ request.deductions[i].amount = 500000
           /\ request.deductions[j].eligible
           /\ request.deductions[j].amount = 200000
    /\ response.body.current_tax_situation.total_deductions = 200000

Clamped(cap, utilization, headroom) ==
    /\ headroom >= 0
    /\ utilization > cap => headroom = 0
    /\ utilization <= cap => headroom = cap - utilization

\* C9: for every category cap of get_standard_tax_strategies (80C 150000,
\* 80D 25000/50000, NPS 50000, the ELSS recommendation) the remaining headroom
\* is max(0, cap - utilization): 0 whenever utilization exceeds the cap, never
\* negative.
C9_HeadroomClamped ==
    /\ "remaining_80c" \in DOMAIN frame
           => Clamped(150000, frame.current_80c, frame.remaining_80c)
    /\ "remaining_health" \in DOMAIN frame
           => /\ frame.health_insurance_limit \in { 25000, 50000 }
              /\ Clamped(frame.health_insurance_limit,
                         frame.current_health_premium, frame.remaining_health)
    /\ "remaining_nps" \in DOMAIN frame
           => Clamped(50000, frame.current_nps, frame.remaining_nps)
    /\ "additional_elss" \in DOMAIN frame
           => Clamped(frame.elss_recommendation,
                      frame.current_elss, frame.additional_elss)

C9_Witness ==
    /\ pc = "done"
    /\ "remaining_80c" \in DOMAIN frame
    /\ frame.current_80c > 150000
    /\ frame.remaining_80c = 0
    /\ frame.current_health_premium > frame.health_insurance_limit
    /\ frame.remaining_health = 0

\* cap minus the amount already claimed, for the category of strategy s
\* (the ELSS figures in tenths of a rupee)
CapLessClaimed(s) ==
    IF s.strategy_name = "Section 80C Tax Saving Investments"
    THEN 150000 - ClaimedIn({ "EPF", "PPF", "ELSS", "Life Insurance", "NSC" })
    ELSE IF s.strategy_name = "Section 80D Health Insurance Optimization"
    THEN s.self_family_limit - ClaimedIn({ "Health Insurance" })
    ELSE IF s.strategy_name = "NPS Additional Deduction (80CCD-1B)"
    THEN 50000 - ClaimedIn({ "NPS" })
    ELSE IF s.strategy_name = "Home Loan Interest Optimization"
    THEN 200000 - ClaimedIn({ "Home Loan Interest" })
    ELSE Min(1500000, request.income) - 10 * ClaimedIn({ "ELSS" })

\* C10 as stated: for every strategy in the returned list (80C, 80D, NPS,
\* Home Loan Interest, ELSS) the category's cap minus the amount already
\* claimed in that category is strictly positive.
C10_NoStrategyWithoutHeadroom ==
    HasStrategies =>
        \A i \in 1..Len(strategies) : CapLessClaimed(strategies[i]) > 0

\* C10, amended: for every Section 80C, Section 80D, NPS and ELSS strategy in
\* the returned list the category's cap minus the amount already claimed is
\* strictly positive; the Home Loan Interest strategy is in the list exactly
\* when the request has a Home Loan Interest deduction, whatever its amount.
C10_NoCappedStrategyWithoutHeadroom ==
    HasStrategies =>
        /\ \A i \in 1..Len(strategies) :
               strategies[i].strategy_name # "Home Loan Interest Optimization"
                   => CapLessClaimed(strategies[i]) > 0
        /\ (\E i \in 1..Len(strategies) :
                strategies[i].strategy_name = "Home Loan Interest Optimization")
           <=> (\E i \in 1..Len(request.deductions) :
                    request.deductions[i].category = "Home Loan Interest")

C10_Witness ==
    /\ pc = "done"
    /\ request.income > 600000
    /\ ClaimedIn({ "NPS" }) = 50000
    /\ ClaimedIn({ "Home Loan Interest" }) = 250000
    /\ Len(strategies) = 4
    /\ \A i \in 1..Len(strategies) :
           strategies[i].strategy_name # "NPS Additional Deduction (80CCD-1B)"

\* C11: the utilization figure of a category is clamped at the category's
\* cap: whenever the deductions claimed in a category sum to more than the
\* cap, the utilization computed and reported (current_utilization for
\* Section 80C, current_deduction for Home Loan Interest against
\* maximum_allowed 200000) equals the cap, never the over-reported sum.
C11_UtilizationClamped ==
    /\ ("current_80c" \in DOMAIN frame
            /\ ClaimedIn({ "EPF", "PPF", "ELSS", "Life Insurance", "NSC" }) > 150000)
           => frame.current_80c = 150000
    /\ HasStrategies =>
           \A i \in 1..Len(strategies) :
               /\ "current_utilization" \in DOMAIN strategies[i]
                      => strategies[i].current_utilization <= 150000
               /\ ("current_deduction" \in DOMAIN strategies[i]
                       /\ ClaimedIn({ "Home Loan Interest" }) > 200000)
                      => strategies[i].current_deduction = strategies[i].maximum_allowed

\* the rate a potential_savings figure is sized with, from the gross income:
\* the highest rate whose slab the income reaches into
RateOfIncome(income) ==
    LET reached == { k \in 1..Len(tax_slabs) : income > SlabLower(k) }
    IN  IF reached = {} THEN 0
        ELSE tax_slabs[CHOOSE k \in reached : \A j \in reached : j <= k].rate

\* the headroom of strategy s as num / den rupees
HeadroomDen(s) == IF s.strategy_name = "ELSS Mutual Fund Investment" THEN 10 ELSE 1

\* C12: every emitted strategy that carries potential_savings has
\* potential_savings = round(remaining_headroom * r * 1.04), r the single
\* marginal rate resolved once from the gross income; the same r serves all
\* strategies of one call and is not recomputed after a contribution.
C12_SavingsFromOneRate ==
    /\ pc \in { "section_80d", "nps", "home_loan", "elss", "respond", "done" }
           => tax_bracket = RateOfIncome(request.income)
    /\ HasStrategies =>
           \A i \in 1..Len(strategies) :
               "potential_savings" \in DOMAIN strategies[i] =>
                   strategies[i].potential_savings
                       = Round(CapLessClaimed(strategies[i]) * tax_bracket * 26,
                               HeadroomDen(strategies[i]) * 2500)

C12_Witness ==
    /\ pc = "done"
    /\ request.income = 1250000
    /\ Len(strategies) = 4
    /\ tax_bracket = 15
    /\ strategies[1].potential_savings = 23400
    /\ strategies[4].potential_savings = 19500

\* the highest slab in which the slab walk taxes a positive amount (0: none)
HighestTaxedSlab(income) ==
    LET taxed == SlabWalk(income).taxed
        positive == { j \in 1..Len(taxed) : taxed[j] > 0 }
    IN  IF positive = {} THEN 0
        ELSE CHOOSE k \in positive : \A j \in positive : j <= k

\* C13: for every income > 0 the marginal rate resolved in
\* get_standard_tax_strategies is the rate of the highest slab in which
\* calculate_indian_tax taxes a positive amount; an income exactly at a slab
\* boundary resolves to the lower slab's rate (400000 -> 0 %, 800000 -> 5 %,
\* 2400000 -> 25 %).
C13_BracketAgreesWithSlabWalk ==
    (pc \in { "section_80d", "nps", "home_loan", "elss", "respond", "done",
              "except", "failed" }
         /\ request.income > 0)
        => /\ HighestTaxedSlab(request.income) > 0
           /\ tax_bracket = tax_slabs[HighestTaxedSlab(request.income)].rate
           /\ request.income = 400000 => tax_bracket = 0
           /\ request.income = 800000 => tax_bracket = 5
           /\ request.income = 2400000 => tax_bracket = 25

C13_Witness ==
    /\ pc = "done"
    /\ request.income = 2400000
    /\ tax_bracket = 25
    /\ HighestTaxedSlab(request.income) = 6

\* every key of the report, at any depth
ReportKeys(body) ==
    DOMAIN body
    \cup DOMAIN body.current_tax_situation
    \cup DOMAIN body.current_tax_situation.tax_calculation
    \cup DOMAIN body.optimization_summary

\* C14: the report of /tax-optimization contains the pre-deduction tax result
\* and the post-deduction tax result tax_after_deductions, the latter equal to
\* calculate_indian_tax(max(0, income - total_eligible_deductions)), together
\* with the strategy list and total_potential_savings.
C14_ReportHasBothTaxResults ==
    pc = "done" =>
        /\ "strategies" \in ReportKeys(response.body)
        /\ "total_potential_savings" \in ReportKeys(response.body)
        /\ "tax_calculation" \in ReportKeys(response.body)
        /\ "tax_after_deductions" \in ReportKeys(response.body)

\* the potential_savings of the strategies at the indices I, by index
RECURSIVE SavingsOver(_, _)
SavingsOver(ss, I) ==
    IF I = {} THEN 0
    ELSE LET i == CHOOSE j \in I : TRUE
         IN  ss[i].potential_savings + SavingsOver(ss, I \ {i})

\* C15: in every report total_potential_savings is the sum of
\* potential_savings over all strategies of the returned list; a strategy
\* without the figure (Home Loan Interest) contributes 0.
C15_TotalIsSumOfSavings ==
    pc = "done" =>
        LET ss == response.body.strategies
        IN  response.body.optimization_summary.total_potential_savings
                = SavingsOver(ss, { i \in 1..Len(ss) :
                                      "potential_savings" \in DOMAIN ss[i] })

C15_Witness ==
    /\ pc = "done"
    /\ request.income = 1250000
    /\ Len(response.body.strategies) = 5
    /\ "potential_savings" \notin DOMAIN response.body.strategies[4]
    /\ response.body.optimization_summary.total_potential_savings
           = 23400 + 3900 + 7800 + 19500

\* the categories some block of get_standard_tax_strategies reads
RecognizedCategories ==
    { "EPF", "PPF", "ELSS", "Life Insurance", "NSC", "Health Insurance", "NPS",
      "Home Loan Interest" }

\* C16: a deduction whose category is not a recognized one is no error and is
\* ignored by the category sums: adding or removing it leaves the strategy
\* list of get_standard_tax_strategies unchanged and the call still succeeds.
C16_UnknownCategoryIgnored ==
    LET ds == request.deductions
        unknown == [category |-> "Donation", amount |-> 50000, eligible |-> TRUE]
    IN  /\ HasStrategies =>
              /\ \A i \in 1..Len(ds) :
                     ds[i].category \notin RecognizedCategories =>
                         get_standard_tax_strategies(
                             request.income, RemoveAt(ds, i), request.user_context)
                             = [raised |-> "", strategies |-> strategies]
              /\ get_standard_tax_strategies(
                     request.income, Append(ds, unknown), request.user_context)
                     = [raised |-> "", strategies |-> strategies]
        /\ pc \in { "except", "failed" } => AgeRaises(request.user_context)

C16_Witness ==
    /\ pc = "done"
    /\ Len(request.deductions) = 2
    /\ request.deductions[1].category = "Donation"
    /\ request.deductions[2].category = "PPF"
    /\ request.income = 900000
    /\ Len(strategies) = 3

\* the reorderings of a list: the list read through a permutation of its
\* indices
Reorderings(ds) ==
    LET n == Len(ds)
        perms == { p \in [1..n -> 1..n] : \A i, j \in 1..n : p[i] = p[j] => i = j }
    IN  { [i \in 1..n |-> ds[p[i]]] : p \in perms }

\* C17: the result of the tax-optimization computation is invariant under any
\* permutation of the deductions: total_deductions, both tax results and the
\* full strategy list (contents and order) are the same for every reordering.
C17_OrderOfDeductionsIrrelevant ==
    \A ds \in Reorderings(request.deductions) :
        /\ pc # "sum_deductions" => SumEligible(ds) = total_deductions
        /\ HasTaxAfter =>
               calculate_indian_tax(TaxableIncome(request.income, SumEligible(ds)))
                   = tax_after_deductions
        /\ HasStrategies =>
               get_standard_tax_strategies(request.income, ds, request.user_context)
                   = [raised |-> "", strategies |-> strategies]
        /\ pc = "done" =>
               Report([request EXCEPT !.deductions = ds], SumEligible(ds),
                      calculate_indian_tax(request.income),
                      get_standard_tax_strategies(
                          request.income, ds, request.user_context).strategies)
                   = response.body

C17_Witness ==
    /\ pc = "done"
    /\ Len(request.deductions) = 2
    /\ request.deductions[1].category = "ELSS"
    /\ request.deductions[2].category = "PPF"
    /\ request.deductions[2].eligible
    /\ request.income = 900000
    /\ total_deductions = 240000
    /\ Cardinality(Reorderings(request.deductions)) = 2

\* C18: in every list returned by get_standard_tax_strategies priority is
\* 'high' exactly for the Section 80C and Section 80D strategies and 'medium'
\* for all others, and no 'medium' strategy precedes a 'high' one.
C18_HighPriorityFirst ==
    HasStrategies =>
        /\ \A i \in 1..Len(strategies) :
               /\ strategies[i].priority \in { "high", "medium" }
               /\ strategies[i].priority = "high"
                      <=> strategies[i].strategy_name
                              \in { "Section 80C Tax Saving Investments",
                                    "Section 80D Health Insurance Optimization" }
        /\ \A i, j \in 1..Len(strategies) :
               (i < j /\ strategies[i].priority = "medium")
                   => strategies[j].priority = "medium"

C18_Witness ==
    /\ pc = "done"
    /\ Len(strategies) = 5
    /\ strategies[2].priority = "high"
    /\ strategies[3].priority = "medium"
    /\ response.body.optimization_summary.high_priority_actions = 2

\* a sub-computation of the handler has failed
SubComputationFailed ==
    \/ HasCurrentTax /\ current_tax.raised # ""
    \/ HasTaxAfter /\ tax_after_deductions.raised # ""
    \/ /\ pc \in { "nps", "home_loan", "elss", "respond", "done", "except", "failed" }
       /\ AgeRaises(request.user_context)

\* C19: /tax-optimization is all-or-nothing: whenever a sub-computation fails
\* the caller receives an error and no report fields; a failure is never
\* swallowed and replaced by a degraded default inside a returned report.
C19_AllOrNothing ==
    /\ SubComputationFailed => pc \in { "except", "failed" }
    /\ pc = "except" => response = [status |-> 0]
    /\ pc = "failed" => response = [status |-> 500]
    /\ response.status = 200 => pc = "done" /\ ~SubComputationFailed
    /\ "body" \in DOMAIN response => response.status = 200

C19_Witness ==
    /\ pc = "failed"
    /\ SubComputationFailed
    /\ response.status = 500
    /\ strategies # <<>>

\* what an invocation run alone on request req answers
AnswerAlone(req) ==
    LET tax == calculate_indian_tax(req.income)
        after == calculate_indian_tax(
                     TaxableIncome(req.income, SumEligible(req.deductions)))
        generated ==
            get_standard_tax_strategies(req.income, req.deductions, req.user_context)
    IN  IF tax.raised # "" \/ after.raised # "" \/ generated.raised # ""
        THEN [status |-> 500]
        ELSE [status |-> 200,
              body |-> Report(req, SumEligible(req.deductions), tax,
                              generated.strategies)]

\* every invocation in flight: the running one and the parked ones
InFlight == { RunningInvocation } \cup { parked[i] : i \in DOMAIN parked }

\* C20: tax computations are pure and isolated under concurrency: for any
\* interleaving of concurrent /tax-optimization invocations each invocation's
\* result is the result of running it alone on the same input, two calls of
\* calculate_indian_tax with the same income give the same output, and no
\* invocation reads or writes state another invocation can change.
C20_IsolatedInvocations ==
    /\ \A c \in InFlight :
           /\ c.pc \in { "done", "failed" } => c.response = AnswerAlone(c.request)
           /\ c.pc \notin { "sum_deductions", "current_tax" }
                  => c.current_tax = calculate_indian_tax(c.request.income)
           /\ c.pc \in { "respond", "done" }
                  => c.strategies
                         = get_standard_tax_strategies(
                               c.request.income, c.request.deductions,
                               c.request.user_context).strategies
    /\ \A c, d \in InFlight :
           (c.request.income = d.request.income
                /\ c.pc \notin { "sum_deductions", "current_tax" }
                /\ d.pc \notin { "sum_deductions", "current_tax" })
               => c.current_tax = d.current_tax

C20_Witness ==
    /\ pc = "done"
    /\ parked[1].pc = "done"
    /\ request.income = 900000
    /\ parked[1].request.income = 1250000
    /\ Len(response.body.strategies) = 3
    /\ Len(parked[1].response.body.strategies) = 5
    /\ parked[1].response = AnswerAlone(parked[1].request)

\* the strategies of ss that carry a potential_savings
WithSavings(ss) ==
    { i \in 1..Len(ss) : "potential_savings" \in DOMAIN ss[i] }

\* the request over-reports: more claimed under Section 80C than its cap
OverReports80C == ClaimedIn(Section80CCategories) > section_80c_limit

\* C21: for every input get_standard_tax_strategies accepts (any income, any
\* deduction amounts, over-reported ones included, any age) every emitted
\* strategy's potential_savings is >= 0.
C21_SavingsNonNegative ==
    /\ \A i \in WithSavings(strategies) : strategies[i].potential_savings >= 0
    /\ ~AgeRaises(request.user_context) =>
           LET ss == get_standard_tax_strategies(
                         request.income, request.deductions,
                         request.user_context).strategies
           IN  \A i \in WithSavings(ss) : ss[i].potential_savings >= 0

C21_Witness ==
    /\ pc = "done"
    /\ OverReports80C
    /\ ClaimedIn({ "NPS" }) < 0
    /\ \E i \in WithSavings(strategies) : strategies[i].potential_savings > 0
    /\ \A i \in 1..Len(strategies) :
           strategies[i].strategy_name # "Section 80C Tax Saving Investments"

\* the strategy named name is in the list ss
Emitted(ss, name) == \E i \in 1..Len(ss) : ss[i].strategy_name = name

\* C22: each strategy is gated by its own income floor: the Section 80C
\* strategy is emitted only if income > 300000, the NPS (80CCD-1B) strategy
\* only if income > 500000 and the ELSS strategy only if income > 600000; at or
\* below its floor the strategy is absent whatever the deductions.
C22_IncomeFloors ==
    /\ Emitted(strategies, "Section 80C Tax Saving Investments")
           => request.income > 300000
    /\ Emitted(strategies, "NPS Additional Deduction (80CCD-1B)")
           => request.income > 500000
    /\ Emitted(strategies, "ELSS Mutual Fund Investment")
           => request.income > 600000

C22_Witness ==
    /\ pc = "done"
    /\ request.income = 500000
    /\ request.deductions = <<>>
    /\ Emitted(strategies, "Section 80C Tax Saving Investments")
    /\ ~Emitted(strategies, "NPS Additional Deduction (80CCD-1B)")
    /\ ~Emitted(strategies, "ELSS Mutual Fund Investment")

\* the Section 80D block (lines 107-133) has run to its end
Has80D == pc \in { "nps", "home_loan", "elss", "respond", "done" }

\* the age the claim gives: the 'age' of user_context, 30 when it has none
ClaimedAge ==
    IF request.user_context.has_age THEN request.user_context.age ELSE 30

\* the 80D cap the claim gives
ClaimedHealthCap == IF ClaimedAge < 60 THEN 25000 ELSE 50000

\* C23: the Section 80D cap depends only on age crossing the senior
\* threshold: 25000 when age < 60 and 50000 when age >= 60, age taken as 30
\* when user_context has no 'age'; the 80D strategy is emitted iff the Health
\* Insurance total is below that cap, whatever the income.
C23_HealthCapByAge ==
    Has80D =>
        /\ frame.health_insurance_limit = ClaimedHealthCap
        /\ Emitted(strategies, "Section 80D Health Insurance Optimization")
               <=> ClaimedIn({ "Health Insurance" }) < ClaimedHealthCap
        /\ \A i \in 1..Len(strategies) :
               strategies[i].strategy_name
                       = "Section 80D Health Insurance Optimization"
                   => /\ strategies[i].self_family_limit = ClaimedHealthCap
                      /\ strategies[i].recommended_contribution
                             = ClaimedHealthCap - ClaimedIn({ "Health Insurance" })

C23_Witness ==
    /\ pc = "done"
    /\ request.user_context.has_age
    /\ request.user_context.age = 60
    /\ request.income <= 0
    /\ ClaimedIn({ "Health Insurance" }) = 30000
    /\ Emitted(strategies, "Section 80D Health Insurance Optimization")

\* the strategies by name
StrategyNames ==
    { "Section 80C Tax Saving Investments",
      "Section 80D Health Insurance Optimization",
      "NPS Additional Deduction (80CCD-1B)",
      "Home Loan Interest Optimization",
      "ELSS Mutual Fund Investment" }

\* the categories a strategy sums: lines 83, 111, 138, 162-163, 186
OwnCategories(name) ==
    CASE name = "Section 80C Tax Saving Investments" -> Section80CCategories
      [] name = "Section 80D Health Insurance Optimization" -> { "Health Insurance" }
      [] name = "NPS Additional Deduction (80CCD-1B)" -> { "NPS" }
      [] name = "Home Loan Interest Optimization" -> { "Home Loan Interest" }
      [] name = "ELSS Mutual Fund Investment" -> { "ELSS" }

\* what the list ss offers under the strategy name: whether it is emitted,
\* and its recommended_contribution and potential_savings where it has them
Offer(ss, name) ==
    LET at == { i \in 1..Len(ss) : ss[i].strategy_name = name }
    IN  IF at = {} THEN [emitted |-> FALSE]
        ELSE LET s == ss[CHOOSE i \in at : TRUE]
             IN  IF "potential_savings" \in DOMAIN s
                 THEN [emitted |-> TRUE,
                       recommended_contribution |-> s.recommended_contribution,
                       potential_savings |-> s.potential_savings]
                 ELSE [emitted |-> TRUE]

\* amounts a claimed deduction is changed to
OtherAmounts == { 0, 10000, 160000 }

\* the request's deductions with the amount of the i-th changed to a
WithAmount(i, a) == [request.deductions EXCEPT ![i].amount = a]

\* the strategies the request's income and user_context give with the
\* deductions ds
StrategiesWith(ds) ==
    get_standard_tax_strategies(request.income, ds, request.user_context).strategies

\* changing the amount of the i-th deduction to a leaves the strategy name as it
\* was
Untouched(i, a, name) ==
    Offer(StrategiesWith(WithAmount(i, a)), name) = Offer(strategies, name)

\* C24 as stated: changing the amount claimed in one strategy's category never
\* changes whether another strategy is emitted, or that other strategy's
\* recommended_contribution and potential_savings.
C24_NoOtherStrategyMoves ==
    pc = "done" =>
        \A i \in 1..Len(request.deductions), a \in OtherAmounts :
            \A one \in StrategyNames, other \in StrategyNames :
                (one # other /\ request.deductions[i].category \in OwnCategories(one))
                    => Untouched(i, a, other)

\* C24, amended: strategies are not chained: each strategy's headroom is a
\* function of income, age and the deductions in its own categories only, so
\* changing the amount of a deduction whose category is not among a
\* strategy's own never changes whether that strategy is emitted or its
\* recommended_contribution and potential_savings.  (ELSS is a category of
\* both the Section 80C and the ELSS strategy: an ELSS amount moves both.)
C24_OnlyOwnCategoriesMove ==
    pc = "done" =>
        \A i \in 1..Len(request.deductions), a \in OtherAmounts :
            \A name \in StrategyNames :
                request.deductions[i].category \notin OwnCategories(name)
                    => Untouched(i, a, name)

C24_Witness ==
    /\ pc = "done"
    /\ request.income = 900000
    /\ Len(request.deductions) = 2
    /\ request.deductions[1].category = "PPF"
    /\ request.deductions[1].eligible
    /\ request.deductions[2].category = "ELSS"
    /\ ~Emitted(strategies, "Section 80C Tax Saving Investments")
    /\ Emitted(strategies, "ELSS Mutual Fund Investment")
    /\ ~Untouched(1, 0, "Section 80C Tax Saving Investments")
    /\ Untouched(1, 0, "ELSS Mutual Fund Investment")

\* C25: in every report for income >= 0 and non-negative deduction amounts,
\* total_potential_savings never exceeds the total tax liability
\* calculate_indian_tax computes on the gross income.
C25_SavingsWithinTaxOwed ==
    (/\ pc = "done"
     /\ request.income >= 0
     /\ \A i \in 1..Len(request.deductions) : request.deductions[i].amount >= 0)
        => response.body.optimization_summary.total_potential_savings * Scale
               <= current_tax.total_tax

\* C26: for every request the operation accepts, 0 <= taxable_income <= gross
\* income, the tax computed on the taxable income is never greater than the
\* tax computed on the gross income, and taxable_income is exactly 0 when the
\* eligible deductions exceed the income.
C26_TaxableIncomeWithinGross ==
    pc = "done" =>
        LET taxable_income == response.body.current_tax_situation.taxable_income
        IN  /\ 0 <= taxable_income
            /\ taxable_income <= request.income
            /\ tax_after_deductions.total_tax <= current_tax.total_tax
            /\ total_deductions > request.income => taxable_income = 0

\* the width of bracket k: its limit minus the previous bracket's limit
BracketWidth(k) ==
    TAX_BRACKETS[k].limit - (IF k = 1 THEN 0 ELSE TAX_BRACKETS[k - 1].limit)

\* the part of income that lies in bracket k
BracketPortion(income, k) ==
    LET lower == IF k = 1 THEN 0 ELSE TAX_BRACKETS[k - 1].limit
        upto == IF TAX_BRACKETS[k].inf THEN income
                ELSE Min(income, TAX_BRACKETS[k].limit)
    IN  Max(0, upto - lower)

\* the progressive marginal tax over the brackets 1..n, in cents
RECURSIVE MarginalTax(_, _)
MarginalTax(income, n) ==
    IF n = 0 THEN 0
    ELSE MarginalTax(income, n - 1) + BracketPortion(income, n) * TAX_BRACKETS[n].rate

RECURSIVE SumSeq(_)
SumSeq(s) == IF s = <<>> THEN 0 ELSE Head(s) + SumSeq(Tail(s))

\* C27: in _calculate_federal_tax, for every income >= 0 and every bracket of
\* TAX_BRACKETS, the amount taxed in the bracket is >= 0 and at most the
\* bracket's width (its limit minus the previous bracket's limit), the amounts
\* sum to income, and the returned tax is the progressive marginal tax over
\* TAX_BRACKETS.
C27_ProgressiveFederalTax ==
    (federal.pc = "returned" /\ federal.income >= 0) =>
        /\ \A k \in 1..Len(federal.taxed) :
               /\ federal.taxed[k] >= 0
               /\ ~TAX_BRACKETS[k].inf => federal.taxed[k] <= BracketWidth(k)
        /\ SumSeq(federal.taxed) = federal.income
        /\ federal.tax = MarginalTax(federal.income, Len(TAX_BRACKETS))

\* the call obtained a generated text the claim counts as valid: a 200 answer
\* whose output_text is a text of more than 10 characters once stripped
GotValidText ==
    /\ advice.raised = ""
    /\ advice.response # None
    /\ advice.response.status = 200
    /\ advice.response.body.json
    /\ advice.response.body.has_output_text
    /\ advice.response.body.is_text
    /\ advice.response.body.output_text.content > 10

\* the fallback texts of lines 187-201, all of them non-empty
FallbackTexts ==
    { [kind |-> "fallback", profile |-> "student", keyword |-> k] :
          k \in { "budget", "savings", "debt", "investment", "default" } }
    \cup
    { [kind |-> "fallback", profile |-> "professional", keyword |-> k] :
          k \in { "investment", "retirement", "taxes", "budget", "default" } }

\* C28: generate_financial_advice never raises to its caller: for every
\* outcome of the token request and the generation request (missing API key,
\* non-200 status, network error, malformed or too-short output, failed token
\* refresh) it returns a non-empty advice string, which is the keyword-matched
\* fallback text whenever no valid generated text was obtained.
C28_AlwaysReturnsAdvice ==
    /\ advice.pc # "propagated"
    /\ advice.pc = "returned" =>
           IF GotValidText
           THEN /\ advice.result.kind = "generated"
                /\ advice.result.text = Strip(advice.response.body.output_text)
                /\ Length(advice.result.text) > 0
           ELSE /\ advice.result \in FallbackTexts
                /\ advice.result
                       = GetFallbackResponse(advice.query, advice.user_context)
                /\ (advice.user_context.userType = "student"
                        /\ advice.query = { "budget", "investment" })
                       => advice.result.keyword = "budget"
                /\ (advice.user_context.userType = "professional"
                        /\ advice.query = { "budget", "investment" })
                       => advice.result.keyword = "investment"
                /\ advice.user_context.userType \notin { "student", "professional" }
                       => /\ advice.result.profile = "professional"
                          /\ advice.result.keyword = "default"

C28_Witness ==
    /\ advice.pc = "returned"
    /\ IsConfigured
    /\ advice.raised = "Exception"
    /\ advice.response # None
    /\ advice.response.status = 200
    /\ ~advice.response.body.json
    /\ advice.user_context.userType = "student"
    /\ advice.result = [kind |-> "fallback", profile |-> "student",
                        keyword |-> "budget"]

\* C29: within one call a 401 triggers exactly one recovery attempt: the
\* cached access_token and token_expires_at are cleared before a new token is
\* fetched, the generation request is re-sent at most once, a second 401 (or
\* any non-200) ends the call with the fallback response, and no call issues
\* more than two generation requests or more than two token requests.
C29_OneRecoveryAttempt ==
    advice.pc # "idle" =>
        /\ advice.generation_requests <= 2
        /\ advice.token_requests <= 2
        /\ advice.pc \in { "clear_token", "refresh", "retry" }
               => /\ advice.generation_requests = 1
                  /\ advice.response.status = 401
        /\ advice.pc = "refresh"
               => access_token = None /\ token_expires_at = None
        /\ advice.pc = "retry" => advice.token_requests >= 1
        /\ (advice.pc = "returned" /\ advice.generation_requests = 2
                /\ advice.response.status # 200)
               => advice.result = GetFallbackResponse(advice.query, advice.user_context)

C29_Witness ==
    /\ advice.pc = "returned"
    /\ advice.generation_requests = 2
    /\ advice.token_requests = 2
    /\ advice.response.status = 401
    /\ advice.result.kind = "fallback"

\* a step that sends a token request
TokenRequested ==
    /\ advice.pc \in { "ensure_token", "refresh" }
    /\ advice'.pc # "idle"
    /\ advice'.token_requests = advice.token_requests + 1

\* a step of _ensure_valid_token
EnsureStep ==
    /\ advice.pc \in { "ensure_token", "refresh" }
    /\ advice' # advice

\* no token is cached, or the current time has reached token_expires_at
NoTokenOrExpired ==
    \/ access_token = None
    \/ token_expires_at # None /\ now >= token_expires_at[1]

\* C30: across any sequence of WatsonxService calls access_token and
\* token_expires_at are either both unset or both set; _ensure_valid_token
\* requests a new token iff no token is cached or the current time has
\* reached token_expires_at; and a failed token request leaves the cached
\* token and expiry unchanged.
C30_TokenAndExpiryTogether ==
    [][ /\ (access_token' = None) <=> (token_expires_at' = None)
        /\ EnsureStep => (TokenRequested <=> NoTokenOrExpired)
        /\ (TokenRequested /\ advice'.pc \notin { "generate", "retry" })
               => UNCHANGED <<access_token, token_expires_at>> ]_vars

====
